---- MODULE Spec2Model ----
(***************************************************************************)
(* A model of simple_duration_parse (src/src/lib.rs): parse_secs scans the *)
(* input one character at a time, buffers digits, resolves each unit       *)
(* suffix against the last resolved magnitude and sums the scaled values.  *)
(*                                                                         *)
(* A character is a one-character string and an input is a sequence of     *)
(* characters.  One behaviour of the model is one call of parse_secs: Init *)
(* draws the input, every action is one iteration of the `while let` loop  *)
(* (one arm of the match) or the final `return Ok(acc)`.                   *)
(*                                                                         *)
(* A u64 is kept at its width: a number is the sequence of its base-256    *)
(* digits (limbs), least significant first, and u64 arithmetic keeps the   *)
(* low eight limbs, as the release build wraps.  The build with overflow   *)
(* checks panics where the release build wraps; no input of the model      *)
(* makes a sum or a product pass 2^64 - 1, so the two builds agree on all  *)
(* of them.                                                                *)
(***************************************************************************)
EXTENDS Integers, Sequences, FiniteSets, TLC

-----------------------------------------------------------------------------
(* Bounds of the model *)

\* longest input drawn character by character
MaxLen == 4

\* largest number of tokens of an input drawn token by token
MaxGroups == 4

\* largest n of the inputs "{n}s", "{n}m", "{n}h", "{n}d"
MaxN == 122

-----------------------------------------------------------------------------
(* Numbers: a natural number is the sequence of its limbs (base 256), least *)
(* significant first, without leading zero limb; <<>> is zero              *)

Zero == <<>>

RECURSIVE NatOfInt(_)
\* the number n, n a small integer of the model
NatOfInt(n) == IF n = 0 THEN <<>> ELSE <<n % 256>> \o NatOfInt(n \div 256)

\* the limbs of a number
Limbs == Seq(0 .. 255)

\* a + b + carry, limb by limb
AddWithCarry[a \in Limbs, b \in Limbs, carry \in 0 .. 1] ==
    IF a = <<>> /\ b = <<>> THEN NatOfInt(carry)
    ELSE LET x == (IF a = <<>> THEN 0 ELSE Head(a))
                  + (IF b = <<>> THEN 0 ELSE Head(b)) + carry
         IN  <<x % 256>> \o AddWithCarry[IF a = <<>> THEN a ELSE Tail(a),
                                         IF b = <<>> THEN b ELSE Tail(b),
                                         x \div 256]

\* a + b, exact
NatAdd(a, b) == AddWithCarry[a, b, 0]

\* a * k + carry, limb by limb
MulWithCarry[a \in Limbs, k \in Nat, carry \in Nat] ==
    IF a = <<>> THEN NatOfInt(carry)
    ELSE LET x == Head(a) * k + carry
         IN  <<x % 256>> \o MulWithCarry[Tail(a), k, x \div 256]

\* a * k, exact, k a small integer of the model (a digit, 10, a scale)
NatMul(a, k) == IF k = 0 THEN Zero ELSE MulWithCarry[a, k, 0]

RECURSIVE StripZeros(_)
\* the limbs without leading zero limbs
StripZeros(a) ==
    IF a = <<>> \/ a[Len(a)] # 0 THEN a ELSE StripZeros(SubSeq(a, 1, Len(a) - 1))

RECURSIVE NatLess(_, _)
\* a < b
NatLess(a, b) ==
    IF Len(a) # Len(b) THEN Len(a) < Len(b)
    ELSE IF a = <<>> THEN FALSE
    ELSE IF a[Len(a)] # b[Len(b)] THEN a[Len(a)] < b[Len(b)]
    ELSE NatLess(StripZeros(SubSeq(a, 1, Len(a) - 1)),
                 StripZeros(SubSeq(b, 1, Len(b) - 1)))

RECURSIVE SubWithBorrow(_, _, _)
SubWithBorrow(a, b, borrow) ==
    IF a = <<>> THEN <<>>
    ELSE LET x == Head(a) - (IF b = <<>> THEN 0 ELSE Head(b)) - borrow
         IN  <<x % 256>> \o SubWithBorrow(Tail(a),
                                          IF b = <<>> THEN b ELSE Tail(b),
                                          IF x < 0 THEN 1 ELSE 0)

\* a - b, for b <= a
NatSub(a, b) == StripZeros(SubWithBorrow(a, b, 0))

\* 2^64
TwoTo64 == <<0, 0, 0, 0, 0, 0, 0, 0, 1>>

\* the value kept by a u64: the low 64 bits
WrapU64[a \in Limbs] == IF Len(a) <= 8 THEN a ELSE StripZeros(SubSeq(a, 1, 8))

\* a + b on u64
U64Add(a, b) == WrapU64[NatAdd(a, b)]

\* a * k on u64
U64Mul(a, k) == WrapU64[NatMul(a, k)]

-----------------------------------------------------------------------------
(* Characters *)

Digits == {"0", "1", "2"}

UnitChars == {"s", "m", "h", "d"}

\* characters that are neither ASCII digits nor unit suffixes
Others == {" ", "S"}

Alphabet == Digits \cup UnitChars \cup Others

\* char::is_ascii_digit
IsAsciiDigit(c) == c \in {"0", "1", "2", "3", "4", "5", "6", "7", "8", "9"}

\* char::to_digit(10) on an ASCII digit
ToDigit(c) ==
    CASE c = "0" -> 0 [] c = "1" -> 1 [] c = "2" -> 2 [] c = "3" -> 3
      [] c = "4" -> 4 [] c = "5" -> 5 [] c = "6" -> 6 [] c = "7" -> 7
      [] c = "8" -> 8 [] c = "9" -> 9

-----------------------------------------------------------------------------
(* enum Magnitude, in declaration order (the derived PartialOrd) *)

Magnitudes == {"Second", "Minute", "Hour", "Day"}

\* the discriminant the derived PartialOrd compares
MagRank(m) ==
    CASE m = "Second" -> 0 [] m = "Minute" -> 1 [] m = "Hour" -> 2 [] m = "Day" -> 3

\* mutant of ToSecs: the hour scaled like the minute
ToSecsHourAsMinute(m) ==
    CASE m = "Second" -> 1 [] m = "Minute" -> 60 [] m = "Hour" -> 60
      [] m = "Day" -> 60 * 60 * 24

\* Magnitude::to_secs
ToSecs(m) ==
    CASE m = "Second" -> 1 [] m = "Minute" -> 60 [] m = "Hour" -> 60 * 60
      [] m = "Day" -> 60 * 60 * 24

\* the magnitude each unit arm of the match hands to verify!
MagOf(c) ==
    CASE c = "s" -> "Second" [] c = "m" -> "Minute" [] c = "h" -> "Hour"
      [] c = "d" -> "Day"

-----------------------------------------------------------------------------
(* Results: Result<u64, Error>, and "Running" while the loop still runs *)

Running == [tag |-> "Running", secs |-> Zero, err |-> "none"]

Ok(n) == [tag |-> "Ok", secs |-> n, err |-> "none"]

Err(e) == [tag |-> "Err", secs |-> Zero, err |-> e]

-----------------------------------------------------------------------------
(* struct Buf(Vec<char>) *)

\* .fold(0, |a, c| 10 * a + c) over the digits of the buffer, first digit first
FoldDigits[a \in Limbs, cs \in Seq(STRING)] ==
    IF cs = <<>> THEN a
    ELSE FoldDigits[U64Add(U64Mul(a, 10), NatOfInt(ToDigit(Head(cs)))), Tail(cs)]

\* mutant of BufParse: only the last buffered digit counts
BufParseLastDigit(b, m) ==
    IF b = <<>> THEN [some |-> FALSE, val |-> Zero, buf |-> b]
    ELSE [some |-> TRUE, val |-> U64Mul(NatOfInt(ToDigit(b[Len(b)])), ToSecs(m)), buf |-> <<>>]

\* mutant of BufParse: the digits are read without being drained
BufParseNoDrain(b, m) ==
    IF b = <<>> THEN [some |-> FALSE, val |-> Zero, buf |-> b]
    ELSE [some |-> TRUE,
          val  |-> U64Mul(FoldDigits[Zero, SelectSeq(b, IsAsciiDigit)], ToSecs(m)),
          buf  |-> b]

\* Buf::parse: None on an empty buffer, else the drained digits folded and scaled
BufParse(b, m) ==
    IF b = <<>> THEN [some |-> FALSE, val |-> Zero, buf |-> b]
    ELSE [some |-> TRUE,
          val  |-> U64Mul(FoldDigits[Zero, SelectSeq(b, IsAsciiDigit)], ToSecs(m)),
          buf  |-> <<>>]

-----------------------------------------------------------------------------
(* struct Order(Option<Magnitude>) *)

\* mutant of OrderVerify: a finer unit is accepted, a coarser one too
OrderVerifyNoDescent(o, m) ==
    IF o = "None" THEN [ok |-> TRUE, err |-> "none", order |-> m]
    ELSE IF o = m THEN [ok |-> FALSE, err |-> "AlreadySeen", order |-> o]
    ELSE [ok |-> TRUE, err |-> "none", order |-> m]

\* mutant of OrderVerify: the two error kinds swapped
OrderVerifySwapped(o, m) ==
    IF o # "None" /\ MagRank(o) > MagRank(m)
    THEN [ok |-> TRUE, err |-> "none", order |-> m]
    ELSE IF o # "None" /\ o = m
    THEN [ok |-> FALSE, err |-> "OutOfOrder", order |-> o]
    ELSE IF o = "None"
    THEN [ok |-> TRUE, err |-> "none", order |-> m]
    ELSE [ok |-> FALSE, err |-> "AlreadySeen", order |-> o]

\* Order::verify
OrderVerify(o, m) ==
    IF o # "None" /\ MagRank(o) > MagRank(m)
    THEN [ok |-> TRUE, err |-> "none", order |-> m]
    ELSE IF o # "None" /\ o = m
    THEN [ok |-> FALSE, err |-> "AlreadySeen", order |-> o]
    ELSE IF o = "None"
    THEN [ok |-> TRUE, err |-> "none", order |-> m]
    ELSE [ok |-> FALSE, err |-> "OutOfOrder", order |-> o]

-----------------------------------------------------------------------------
(* The arms of the match, as functions of the locals                       *)
(* st = [buf, order, acc, result]                                          *)

InitLocals == [buf |-> <<>>, order |-> "None", acc |-> Zero, result |-> Running]

\* mutant of VerifyMacro: the ordering is checked before the empty buffer
VerifyMacroOrderFirst(st, m) ==
    LET v == OrderVerify(st.order, m)
        p == BufParse(st.buf, m)
    IN  IF ~v.ok THEN [st EXCEPT !.result = Err(v.err)]
        ELSE IF st.buf = <<>> THEN [st EXCEPT !.result = Err("InvalidData")]
        ELSE [st EXCEPT !.order = v.order, !.buf = p.buf, !.acc = U64Add(st.acc, p.val)]

\* mutant of VerifyMacro: the total is assigned, not added to
VerifyMacroAssigns(st, m) ==
    IF st.buf = <<>> THEN [st EXCEPT !.result = Err("InvalidData")]
    ELSE LET v == OrderVerify(st.order, m)
         IN  IF ~v.ok THEN [st EXCEPT !.result = Err(v.err)]
             ELSE LET p == BufParse(st.buf, m)
                  IN  IF p.some
                      THEN [st EXCEPT !.order = v.order, !.buf = p.buf,
                                      !.acc = p.val]
                      ELSE [st EXCEPT !.order = v.order, !.result = Ok(st.acc)]

\* mutant of VerifyMacro: the macro without its test of the empty buffer
VerifyMacroNoEmptyTest(st, m) ==
    LET v == OrderVerify(st.order, m)
    IN  IF ~v.ok THEN [st EXCEPT !.result = Err(v.err)]
        ELSE LET p == BufParse(st.buf, m)
             IN  IF p.some
                 THEN [st EXCEPT !.order = v.order, !.buf = p.buf,
                                 !.acc = U64Add(st.acc, p.val)]
                 ELSE [st EXCEPT !.order = v.order, !.result = Ok(st.acc)]

\* the verify! macro and the `acc +=` around it
VerifyMacro(st, m) ==
    IF st.buf = <<>> THEN [st EXCEPT !.result = Err("InvalidData")]
    ELSE LET v == OrderVerify(st.order, m)
         IN  IF ~v.ok THEN [st EXCEPT !.result = Err(v.err)]
             ELSE LET p == BufParse(st.buf, m)
                  IN  IF p.some
                      THEN [st EXCEPT !.order = v.order, !.buf = p.buf,
                                      !.acc = U64Add(st.acc, p.val)]
                      ELSE [st EXCEPT !.order = v.order, !.result = Ok(st.acc)]

\* mutant of DigitArm: a leading zero is buffered like any digit
DigitArmZeroAllowed(st, c) == [st EXCEPT !.buf = Append(st.buf, c)]

\* (c, Some(..)) if c.is_ascii_digit()
DigitArm(st, c) ==
    IF st.buf = <<>> /\ c = "0" THEN [st EXCEPT !.result = Err("InvalidData")]
    ELSE [st EXCEPT !.buf = Append(st.buf, c)]

\* mutant of LastDigitArm: a digit that ends the input is buffered like any digit
LastDigitArmBuffered(st, c) == [st EXCEPT !.buf = Append(st.buf, c)]

\* (c, None) if c.is_ascii_digit()
LastDigitArm(st, c) == [st EXCEPT !.result = Err("InvalidData")]

\* mutant of OtherArm: an unrecognised character is rejected
OtherArmStrict(st, c) == [st EXCEPT !.result = Err("InvalidData")]

\* mutant of OtherArm: an unrecognised character after pending digits is rejected
OtherArmRejectsDangling(st, c) ==
    IF st.buf # <<>> THEN [st EXCEPT !.result = Err("InvalidData")] ELSE st

\* mutant of OtherArm: an unrecognised character drops the pending digits
OtherArmClearsBuf(st, c) == [st EXCEPT !.buf = <<>>]

\* _ => continue
OtherArm(st, c) == st

\* mutant of Step: a unit suffix without digits is skipped when it ends the input
StepLastUnitSkipped(st, c, hasNext) ==
    IF c \in UnitChars /\ st.buf = <<>> /\ ~hasNext THEN st
    ELSE IF c \in UnitChars THEN VerifyMacro(st, MagOf(c))
    ELSE IF IsAsciiDigit(c) /\ hasNext THEN DigitArm(st, c)
    ELSE IF IsAsciiDigit(c) THEN LastDigitArm(st, c)
    ELSE OtherArm(st, c)

\* one iteration of the loop: the match on (left, iter.peek())
Step(st, c, hasNext) ==
    IF c \in UnitChars THEN VerifyMacro(st, MagOf(c))
    ELSE IF IsAsciiDigit(c) /\ hasNext THEN DigitArm(st, c)
    ELSE IF IsAsciiDigit(c) THEN LastDigitArm(st, c)
    ELSE OtherArm(st, c)

RECURSIVE Scan(_, _, _)
\* the while-let loop from character i on, then `return Ok(acc)`
Scan(st, in, i) ==
    IF st.result # Running THEN st.result
    ELSE IF i > Len(in) THEN Ok(st.acc)
    ELSE Scan(Step(st, in[i], i < Len(in)), in, i + 1)

\* parse_secs as a function of its input
ParseSecs(in) == Scan(InitLocals, in, 1)

-----------------------------------------------------------------------------
(* The adapters: parse_human_duration for the two duration types           *)

\* `secs as _` with the i64 that time::Duration::seconds takes: the same 64
\* bits read in two's complement
AsI64(u) ==
    IF Len(u) = 8 /\ u[8] >= 128 THEN [neg |-> TRUE, mag |-> NatSub(TwoTo64, u)]
    ELSE [neg |-> FALSE, mag |-> u]

\* std::time::Duration::from_secs(secs): whole seconds, never negative
StdFromSecs(u) == [neg |-> FALSE, mag |-> u]

\* time::Duration::seconds(i): a signed count of whole seconds
TimeSeconds(i) == i

NoDuration == [neg |-> FALSE, mag |-> Zero]

\* <std::time::Duration as DurationParser>::parse_human_duration, given what
\* parse_secs(input) returned
StdParseHumanDuration(res) ==
    IF res.tag = "Ok" THEN [tag |-> "Ok", dur |-> StdFromSecs(res.secs), err |-> "none"]
    ELSE [tag |-> "Err", dur |-> NoDuration, err |-> res.err]

\* <time::Duration as DurationParser>::parse_human_duration, given what
\* parse_secs(input) returned
TimeParseHumanDuration(res) ==
    IF res.tag = "Ok"
    THEN [tag |-> "Ok", dur |-> TimeSeconds(AsI64(res.secs)), err |-> "none"]
    ELSE [tag |-> "Err", dur |-> NoDuration, err |-> res.err]

-----------------------------------------------------------------------------
(* The inputs of the model *)

\* every input of at most MaxLen characters of the alphabet
CharInputs == UNION {[1..n -> Alphabet] : n \in 0..MaxLen}

\* "U+0663" stands for the one character ARABIC-INDIC DIGIT THREE, a digit
\* that is not an ASCII digit
Tokens ==
    { <<"1", "d">>, <<"2", "h">>, <<"1", "m">>, <<"2", "s">>, <<" ">>,
      <<"U+0663">> }

RECURSIVE TokenSeqs(_)
\* the concatenations of at most n tokens
TokenSeqs(n) ==
    IF n = 0 THEN {<<>>}
    ELSE LET shorter == TokenSeqs(n - 1)
         IN  shorter \cup {s \o t : s \in shorter, t \in Tokens}

TokenInputs == TokenSeqs(MaxGroups)

\* inputs whose totals lie around 2^63 and just below 2^64
WideInputs ==
    {
      \* the most whole days below 2^63 seconds
      <<"1", "0", "6", "7", "5", "1", "9", "9", "1", "1", "6", "7", "3",
        "0", "0", "d">>,
      \* 2^63 - 1 seconds, the largest i64
      <<"1", "0", "6", "7", "5", "1", "9", "9", "1", "1", "6", "7", "3",
        "0", "0", "d", "1", "5", "h", "3", "0", "m", "7", "s">>,
      \* 2^63 seconds
      <<"1", "0", "6", "7", "5", "1", "9", "9", "1", "1", "6", "7", "3",
        "0", "0", "d", "1", "5", "h", "3", "0", "m", "8", "s">>,
      \* the most days that fit in a u64
      <<"2", "1", "3", "5", "0", "3", "9", "8", "2", "3", "3", "4", "6",
        "0", "1", "d">>,
      \* 2^64 - 1 seconds, the largest u64
      <<"2", "1", "3", "5", "0", "3", "9", "8", "2", "3", "3", "4", "6",
        "0", "1", "d", "7", "h", "1", "5", "s">>
    }

Inputs == CharInputs \cup TokenInputs \cup WideInputs

-----------------------------------------------------------------------------
(* The state machine *)

VARIABLES
    input,   \* the argument of parse_secs
    pos,     \* number of characters iter.next() has returned
    buf,     \* Buf
    order,   \* Order
    acc,     \* the running total
    result   \* Running, or what parse_secs returned

vars == <<input, pos, buf, order, acc, result>>

Locals == [buf |-> buf, order |-> order, acc |-> acc, result |-> result]

Init ==
    /\ input \in Inputs
    /\ pos = 0
    /\ buf = InitLocals.buf
    /\ order = InitLocals.order
    /\ acc = InitLocals.acc
    /\ result = InitLocals.result

\* iter.next() returned a character: it and the lookahead
HasLeft == result = Running /\ pos < Len(input)

Left == input[pos + 1]

Peek == pos + 1 < Len(input)

\* mutant of Assign: the iterator is not advanced
AssignNoAdvance(st) ==
    /\ pos' = pos
    /\ buf' = st.buf
    /\ order' = st.order
    /\ acc' = st.acc
    /\ result' = st.result
    /\ UNCHANGED input

Assign(st) ==
    /\ pos' = pos + 1
    /\ buf' = st.buf
    /\ order' = st.order
    /\ acc' = st.acc
    /\ result' = st.result
    /\ UNCHANGED input

\* ('s' | 'm' | 'h' | 'd', ..) => verify!(..)
UnitSuffix ==
    /\ HasLeft
    /\ Left \in UnitChars
    /\ Assign(Step(Locals, Left, Peek))

\* (c, Some(..)) if c.is_ascii_digit()
Digit ==
    /\ HasLeft
    /\ Left \notin UnitChars
    /\ IsAsciiDigit(Left)
    /\ Peek
    /\ Assign(Step(Locals, Left, Peek))

\* (c, None) if c.is_ascii_digit()
LastDigit ==
    /\ HasLeft
    /\ Left \notin UnitChars
    /\ IsAsciiDigit(Left)
    /\ ~Peek
    /\ Assign(Step(Locals, Left, Peek))

\* _ => continue
Other ==
    /\ HasLeft
    /\ Left \notin UnitChars
    /\ ~IsAsciiDigit(Left)
    /\ Assign(Step(Locals, Left, Peek))

\* iter.next() returned None: return Ok(acc)
ReturnOk ==
    /\ result = Running
    /\ pos = Len(input)
    /\ result' = Ok(acc)
    /\ UNCHANGED <<input, pos, buf, order, acc>>

Next == UnitSuffix \/ Digit \/ LastDigit \/ Other \/ ReturnOk

Spec == Init /\ [][Next]_vars

\* the loop is sequential code: it keeps running until it returns
FairSpec == Spec /\ WF_vars(Next)

-----------------------------------------------------------------------------
(* Vocabulary of the properties *)

Returned == result # Running

IsOk == result.tag = "Ok"

IsErr == result.tag = "Err"

\* the character whose arm made the call fail
FailedAt == input[pos]

TypeOK ==
    /\ input \in Inputs
    /\ pos \in 0..Len(input)
    /\ order \in Magnitudes \cup {"None"}
    /\ Len(acc) <= 8 /\ \A i \in 1..Len(acc) : acc[i] \in 0..255
    /\ result.tag \in {"Running", "Ok", "Err"}

\* the state machine and the function agree on what parse_secs returns
ScanAgrees == Returned => result = ParseSecs(input)

-----------------------------------------------------------------------------
(* The format of section 6, stated on its own: groups <digits><unit>       *)
(* separated by ignorable text                                             *)

\* the scale of each unit suffix, as the format gives it
SuffixScale(u) ==
    CASE u = "s" -> 1 [] u = "m" -> 60 [] u = "h" -> 3600 [] u = "d" -> 86400

\* day > hour > minute > second, on the suffixes
Coarser(u, v) == SuffixScale(u) > SuffixScale(v)

RECURSIVE Pow10(_)
Pow10(k) == IF k = 0 THEN NatOfInt(1) ELSE NatMul(Pow10(k - 1), 10)

RECURSIVE DecimalValue(_)
\* positional decimal value, most significant digit first
DecimalValue(ds) ==
    IF ds = <<>> THEN Zero
    ELSE NatAdd(NatMul(Pow10(Len(ds) - 1), ToDigit(Head(ds))),
                DecimalValue(Tail(ds)))

RECURSIVE GroupsFrom(_, _, _, _)
\* the groups of input `in` read from character i on, `cur` being the digits
\* of the group under way; ok is FALSE when `in` is not of the format
GroupsFrom(in, i, cur, gs) ==
    IF i > Len(in) THEN [ok |-> cur = <<>>, groups |-> gs]
    ELSE LET c == in[i]
         IN  IF IsAsciiDigit(c)
             THEN IF cur = <<>> /\ c = "0" THEN [ok |-> FALSE, groups |-> gs]
                  ELSE GroupsFrom(in, i + 1, Append(cur, c), gs)
             ELSE IF c \in UnitChars
             THEN IF cur = <<>> THEN [ok |-> FALSE, groups |-> gs]
                  ELSE GroupsFrom(in, i + 1, <<>>,
                                  Append(gs, [digits |-> cur, unit |-> c]))
             ELSE IF cur # <<>> THEN [ok |-> FALSE, groups |-> gs]
                  ELSE GroupsFrom(in, i + 1, <<>>, gs)

GroupsOf(in) == GroupsFrom(in, 1, <<>>, <<>>)

Descending(gs) ==
    \A i \in 1..Len(gs) : \A j \in 1..Len(gs) :
        i < j => Coarser(gs[i].unit, gs[j].unit)

WellFormed(in) == GroupsOf(in).ok /\ Descending(GroupsOf(in).groups)

RECURSIVE SumOfGroups(_)
SumOfGroups(gs) ==
    IF gs = <<>> THEN Zero
    ELSE NatAdd(NatMul(DecimalValue(Head(gs).digits), SuffixScale(Head(gs).unit)),
                SumOfGroups(Tail(gs)))

RECURSIVE Decimal(_)
\* n written in plain decimal, as format!("{n}") writes it
Decimal(n) ==
    LET d == CHOOSE c \in {"0", "1", "2", "3", "4", "5", "6", "7", "8", "9"} :
                 ToDigit(c) = n % 10
    IN  IF n < 10 THEN <<d>> ELSE Append(Decimal(n \div 10), d)

\* the inputs "{n}" of the unit-scaling property
DecimalOf == [n \in 0..MaxN |-> Decimal(n)]

\* the unit suffixes of the first n characters of the input, in order
SuffixesBefore(n) == SelectSeq(SubSeq(input, 1, n), LAMBDA c : c \in UnitChars)

\* nonempty ignorable text
Garbage == {<<a>> : a \in Others} \cup {<<a, b>> : a \in Others, b \in Others}

\* what may follow a character of the input
Tails ==
    {<<>>} \cup {<<a>> : a \in Alphabet}
           \cup {<<a, b>> : a \in Alphabet, b \in Alphabet}

-----------------------------------------------------------------------------
(* The claims *)

\* C1: on every input made of groups <digits><unit>, digits without a leading
\* zero, units strictly descending, separated by ignorable text, parse_secs
\* returns Ok of the sum of (decimal value of the digits) x (scale of the unit).
C1_SumOfGroups ==
    (Returned /\ WellFormed(input))
        => result = Ok(SumOfGroups(GroupsOf(input).groups))

\* a well-formed input of three groups or more has been parsed
C1_Witness ==
    /\ Returned
    /\ WellFormed(input)
    /\ Len(GroupsOf(input).groups) >= 3
    /\ result = Ok(SumOfGroups(GroupsOf(input).groups))

\* C2 as stated: for all n, zero included, parse_secs("{n}u") returns n times
\* the scale of u.
C2_Original ==
    Returned =>
        \A n \in 0..MaxN : \A u \in UnitChars :
            input = Append(DecimalOf[n], u) => result = Ok(NatOfInt(n * SuffixScale(u)))

\* C2 amended: for all n >= 1, parse_secs("{n}s") returns n, "{n}m" 60n,
\* "{n}h" 3600n and "{n}d" 86400n.
C2_UnitScaling ==
    Returned =>
        \A n \in 1..MaxN : \A u \in UnitChars :
            input = Append(DecimalOf[n], u) => result = Ok(NatOfInt(n * SuffixScale(u)))

\* "{n}h" has been parsed for an n of several digits
C2_Witness ==
    /\ Returned
    /\ \E n \in 10..MaxN : input = Append(DecimalOf[n], "h") /\ result = Ok(NatOfInt(3600 * n))

\* C3: a unit suffix reached with a non-empty buffer is decided by the last
\* resolved unit alone: none or strictly coarser, the unit is accepted and
\* remembered; equal, AlreadySeen; finer, OutOfOrder.
C3_OrderDecides ==
    [][(HasLeft /\ Left \in UnitChars /\ buf # <<>>) =>
        LET prev == SuffixesBefore(pos)
            last == prev[Len(prev)]
        IN  /\ (prev = <<>> \/ Coarser(last, Left))
                => (result' = Running /\ order' = MagOf(Left))
            /\ (prev # <<>> /\ last = Left) => result' = Err("AlreadySeen")
            /\ (prev # <<>> /\ Coarser(Left, last)) => result' = Err("OutOfOrder")
      ]_vars

\* a unit was accepted after a coarser one and replaced it as the remembered unit
C3_Witness ==
    /\ result = Running
    /\ pos >= 4
    /\ input[pos] = "m"
    /\ SuffixesBefore(pos) = <<"d", "m">>
    /\ order = "Minute"

\* the second occurrence of a unit suffix, right after a digit, the scan
\* having come that far
SecondOccurrence ==
    /\ pos >= 2
    /\ input[pos] \in UnitChars
    /\ IsAsciiDigit(input[pos - 1])
    /\ \E i \in 1..(pos - 1) : input[i] = input[pos]

\* C4 as stated: the second occurrence of a unit suffix fails with
\* AlreadySeen, also when other units were resolved in between.
C4_Original == SecondOccurrence => result = Err("AlreadySeen")

\* C4 amended: the second occurrence of a unit suffix fails the parse, with
\* AlreadySeen when no other unit was resolved between the two occurrences and
\* with OutOfOrder when one was.
C4_SecondOccurrence ==
    SecondOccurrence =>
        LET prev == SuffixesBefore(pos - 1)
        IN  result = Err(IF prev[Len(prev)] = input[pos] THEN "AlreadySeen"
                         ELSE "OutOfOrder")

\* a unit came back after another unit was resolved in between
C4_Witness ==
    /\ SecondOccurrence
    /\ SuffixesBefore(pos) = <<"d", "h", "d">>
    /\ result = Err("OutOfOrder")

\* C5: the digit '0' reached with an empty buffer fails the parse with
\* InvalidData, whatever follows it.
C5_LeadingZero ==
    [][(HasLeft /\ Left = "0" /\ buf = <<>>) => result' = Err("InvalidData")]_vars

\* a leading zero followed by a unit was rejected after a group was resolved
C5_Witness ==
    /\ result = Err("InvalidData")
    /\ pos >= 1 /\ pos < Len(input)
    /\ input[pos] = "0"
    /\ input[pos + 1] \in UnitChars
    /\ buf = <<>>
    /\ acc # Zero

\* C6: an input whose last character is an ASCII digit never yields Ok, and
\* when the scan came as far as that digit the result is InvalidData.
C6_LastDigit ==
    (Returned /\ input # <<>> /\ IsAsciiDigit(input[Len(input)]))
        => /\ IsErr
           /\ pos = Len(input) => result = Err("InvalidData")

\* a digit ended the input after a group was resolved
C6_Witness ==
    /\ input # <<>>
    /\ pos = Len(input)
    /\ IsAsciiDigit(input[pos])
    /\ input[pos] # "0"
    /\ acc # Zero
    /\ result = Err("InvalidData")

\* C7: a unit suffix reached with an empty buffer fails with InvalidData,
\* also when the unit would violate the ordering.
C7_EmptyBufferFirst ==
    [][(HasLeft /\ Left \in UnitChars /\ buf = <<>>)
            => result' = Err("InvalidData")]_vars

\* a unit with no digits, not finer than the remembered unit, gave InvalidData
C7_Witness ==
    /\ result = Err("InvalidData")
    /\ pos >= 1
    /\ input[pos] \in UnitChars
    /\ buf = <<>>
    /\ order # "None"
    /\ MagRank(MagOf(input[pos])) >= MagRank(order)

\* C8: when parse_secs returns Ok(t) on the input, it returns Ok(t) on the
\* input followed by any ignorable text.
C8_TrailingGarbage ==
    IsOk => \A g \in Garbage : ParseSecs(input \o g) = result

\* the input is itself an accepted input followed by ignorable text
C8_Witness ==
    /\ IsOk
    /\ result.secs # Zero
    /\ Len(input) >= 3
    /\ input[Len(input)] \in Others
    /\ ParseSecs(SubSeq(input, 1, Len(input) - 1)) = result

\* characters i..j are a maximal digit run followed by an ignorable character
DanglingRun(i, j) ==
    /\ 1 <= i /\ i <= j /\ j < Len(input)
    /\ \A k \in i..j : IsAsciiDigit(input[k])
    /\ i > 1 => ~IsAsciiDigit(input[i - 1])
    /\ input[j + 1] \notin UnitChars /\ ~IsAsciiDigit(input[j + 1])

\* the input without characters i..j
Without(i, j) == SubSeq(input, 1, i - 1) \o SubSeq(input, j + 1, Len(input))

\* C9 as stated: the result is the same as for the input with the dangling
\* digit run removed, whatever comes later in the input.
C9_Original ==
    Returned =>
        \A i \in 1..Len(input) : \A j \in i..Len(input) :
            DanglingRun(i, j) => ParseSecs(Without(i, j)) = result

\* C9 amended: a dangling digit run that does not start with '0' and is
\* followed by ignorable text only, up to the end of the input, contributes
\* nothing and is not flagged: the result is that of the input without it.
C9_DanglingRun ==
    Returned =>
        \A i \in 1..Len(input) : \A j \in i..Len(input) :
            ( /\ DanglingRun(i, j)
              /\ input[i] # "0"
              /\ \A k \in (j + 1)..Len(input) :
                    input[k] \notin UnitChars /\ ~IsAsciiDigit(input[k]) )
                => ParseSecs(Without(i, j)) = result

\* a digit run was left dangling at the end of an input that resolved a group
C9_Witness ==
    /\ IsOk
    /\ result.secs # Zero
    /\ buf # <<>>
    /\ \E i \in 1..Len(input) : \E j \in i..Len(input) :
          DanglingRun(i, j) /\ ParseSecs(Without(i, j)) = result

\* C10: a failure ends the parse with its error kind whatever characters
\* follow the failing one: no continuation of the input turns it into Ok or
\* into another error.
C10_NoPartialSuccess ==
    (IsErr /\ pos < Len(input))
        => \A t \in Tails : ParseSecs(SubSeq(input, 1, pos) \o t) = result

\* the parse failed after a group was resolved, a valid group following
C10_Witness ==
    /\ IsErr
    /\ acc # Zero
    /\ pos + 2 <= Len(input)
    /\ input[pos] \in UnitChars
    /\ IsAsciiDigit(input[pos + 1]) /\ input[pos + 1] # "0"
    /\ input[pos + 2] \in UnitChars
    /\ Coarser(input[pos], input[pos + 2])

\* the ASCII decimal digits, as the properties name them
AsciiDigits == {"0", "1", "2", "3", "4", "5", "6", "7", "8", "9"}

\* a character that is neither an ASCII digit nor a unit suffix
Ignorable(c) == c \notin AsciiDigits /\ c \notin UnitChars

\* C11: as long as the parse has not failed, and so whenever it returns Ok,
\* the units resolved so far are strictly descending: none twice, four at most.
C11_Descending ==
    ~IsErr =>
        LET us == SuffixesBefore(pos)
        IN  /\ \A i \in 1..Len(us) : \A j \in 1..Len(us) :
                  i < j => Coarser(us[i], us[j])
            /\ Len(us) <= 4

\* an input of four groups, day to second, returned Ok
C11_Witness ==
    /\ IsOk
    /\ SuffixesBefore(Len(input)) = <<"d", "h", "m", "s">>

\* C12: the empty input, and every input without ASCII digit and without
\* unit suffix, returns Ok(0): nothing is resolved, nothing is buffered.
C12_NothingToParse ==
    (Returned /\ \A i \in 1..Len(input) : Ignorable(input[i]))
        => result = Ok(Zero) /\ order = "None" /\ buf = <<>>

\* an input of ignorable characters only returned Ok(0)
C12_Witness ==
    /\ result = Ok(Zero)
    /\ Len(input) >= 2
    /\ \A i \in 1..Len(input) : Ignorable(input[i])

\* C14: the buffer is empty right after every successful resolution of a
\* unit suffix.
C14_BufferCleared ==
    [][(HasLeft /\ Left \in UnitChars /\ result' = Running) => buf' = <<>>]_vars

\* a second group was resolved after the first one's digits were dropped
C14_Witness ==
    /\ result = Running
    /\ pos >= 4
    /\ input[pos] \in UnitChars
    /\ Len(SuffixesBefore(pos)) = 2
    /\ buf = <<>>
    /\ acc = SumOfGroups(GroupsOf(SubSeq(input, 1, pos)).groups)

\* C15: the total never decreases, changes only when a unit suffix is
\* resolved, and each resolution adds (value of the buffered digits) x (scale
\* of the unit) to it.
C15_TotalGrows ==
    [][/\ ~NatLess(acc', acc)
       /\ acc' # acc => (HasLeft /\ Left \in UnitChars /\ result' = Running)
       /\ (HasLeft /\ Left \in UnitChars /\ result' = Running)
            => acc' = NatAdd(acc, NatMul(DecimalValue(buf), SuffixScale(Left)))
      ]_vars

\* a second resolution added to a total that was not zero
C15_Witness ==
    /\ result = Running
    /\ Len(SuffixesBefore(pos)) = 2
    /\ input[pos] \in UnitChars
    /\ NatLess(NatOfInt(SuffixScale(input[pos]) * 2), acc)

\* C16: an ignorable character changes neither the buffer, nor the remembered
\* unit, nor the total; an accepted digit is appended to the buffer and
\* changes nothing else.
C16_Frame ==
    [][/\ (HasLeft /\ Ignorable(Left))
            => /\ buf' = buf /\ order' = order /\ acc' = acc
               /\ result' = Running
       /\ (HasLeft /\ Left \in AsciiDigits /\ result' = Running)
            => buf' = Append(buf, Left) /\ order' = order /\ acc' = acc
      ]_vars

\* an ignorable character was skipped with digits pending and a total
C16_Witness ==
    /\ result = Running
    /\ pos >= 1
    /\ Ignorable(input[pos])
    /\ buf # <<>>
    /\ order # "None"
    /\ acc # Zero

\* C17: parse_secs returns on every input, after a single pass: each step
\* takes the next character, Ok is returned once all characters were taken.
C17_SinglePass ==
    /\ <>Returned
    /\ [][pos' = pos + 1 \/ (pos' = pos /\ pos = Len(input))]_vars
    /\ [](pos <= Len(input))
    /\ [](IsOk => pos = Len(input))

\* the longest token input was scanned to its end
C17_Witness ==
    /\ IsOk
    /\ pos = Len(input)
    /\ pos >= 7

\* the digits and unit suffixes of an input, in order
Significant(in) ==
    SelectSeq(in, LAMBDA c : c \in AsciiDigits \/ c \in UnitChars)

\* the input without its ignorable characters, one ignorable character being
\* kept at the end unless the input ends with a digit
Canonical(in) ==
    IF in # <<>> /\ in[Len(in)] \in AsciiDigits THEN Significant(in)
    ELSE Append(Significant(in), " ")

\* C18: the result depends only on the digits and unit suffixes of the input,
\* in order, and on whether its last character is a digit.
C18_IgnorableTransparent == Returned => result = ParseSecs(Canonical(input))

\* an ignorable character inside a digit run: the group counts as one number
C18_Witness ==
    /\ IsOk
    /\ result.secs # Zero
    /\ \E i \in 1..(Len(input) - 2) :
          /\ input[i] \in AsciiDigits
          /\ Ignorable(input[i + 1])
          /\ input[i + 2] \in AsciiDigits

\* C19: the buffer holds ASCII digits only and never starts with '0'; Ok(0)
\* is returned exactly on the accepted inputs without unit suffix.
C19_BufferDigits ==
    /\ \A i \in 1..Len(buf) : buf[i] \in AsciiDigits
    /\ buf # <<>> => buf[1] # "0"
    /\ IsOk => (result.secs = Zero <=> SuffixesBefore(Len(input)) = <<>>)

\* Ok(0) was returned with digits left in the buffer
C19_Witness ==
    /\ result = Ok(Zero)
    /\ Len(buf) >= 2

\* C20: no iteration of the loop ends the parse with Ok: the break of verify!
\* is never taken, Ok comes from the return after the loop alone.
C20_NoBreak == [][HasLeft => result'.tag # "Ok"]_vars

\* Ok was returned after a unit suffix ended the input
C20_Witness ==
    /\ IsOk
    /\ pos = Len(input)
    /\ pos >= 2
    /\ input[pos] \in UnitChars

\* a duration of exactly the seconds parse_secs counted
\* the outcome the claim expects of an adapter: the error of parse_secs, or a
\* duration of exactly the seconds it returned
ExactDuration(res) ==
    [tag |-> res.tag, dur |-> [neg |-> FALSE, mag |-> res.secs], err |-> res.err]

\* C13: both adapters fail with the error of parse_secs, or both succeed with
\* a duration of exactly the seconds parse_secs returned, over the whole u64
\* range.
C13_AdaptersAgree ==
    Returned =>
        /\ StdParseHumanDuration(result) = ExactDuration(result)
        /\ TimeParseHumanDuration(result) = ExactDuration(result)

====
